---- MODULE Spec2Model ----
(***************************************************************************)
(* Broadcast coalescing for pub/sub: the Room of one batch (shared         *)
(* message, per-sender gaps, sorted sockets), its broadcast, and the       *)
(* prepare/check callbacks of the event loop that close a batch window.    *)
(***************************************************************************)
EXTENDS Integers, Sequences, FiniteSets, TLC

\* Bounds of the model.
MaxBatched == 3      \* publications accumulated in one window
MaxSockets == 3      \* entries of the sockets vector
MaxLen == 1          \* bytes in one published message

\* Connection handles (uWS::WebSocket), ordered by < as operator< orders them.
Ids == {1, 2, 3}

\* The bytes a client can put in a message, in the order they are used.
Alphabet == <<"a", "b", "c", "d">>

\* A byte of a message, kept together with the connection it arrived on.
Byte(sender, i) == [by |-> sender, ch |-> Alphabet[i]]

\* The message of `length` bytes received from `sender`.
Message(sender, length) == [i \in 1..length |-> Byte(sender, i)]

\* The connection-established payload "1234567890123456", sent by the server (0).
Greeting == [i \in 1..16 |-> [by |-> 0, ch |-> i % 10]]

VARIABLES
    sockets,               \* Room::sockets, a sorted vector of handles
    uniqueSenders,         \* Room::uniqueSenders, handle -> vector of Gap
    sharedMessage,         \* Room::sharedMessage
    gotPubsThisIteration,  \* Room::gotPubsThisIteration
    batched,               \* Room::batched
    pc,                    \* where the event loop is in its pass
    timerActive,           \* the 1 ms noop timer is started and has not fired
    ioThisPass,            \* the poll of this pass has run an I/O callback
    pubThisPass,           \* onMessage has run since the last prepare callback
    variant,               \* which listing runs: "room", or the earlier "readme"
    delaying,              \* the earlier listing's delaying
    ready_polls,           \* the earlier listing's ready_polls
    pubs,                  \* the messages published since the last broadcast
    out,                   \* the sends the last step made, in order
    flushed                \* what the broadcast of the last step saw and built

room == <<sockets, uniqueSenders, sharedMessage, gotPubsThisIteration, batched>>
loop == <<pc, timerActive, ioThisPass, pubThisPass>>
earlier == <<variant, delaying, ready_polls>>
vars == <<sockets, uniqueSenders, sharedMessage, gotPubsThisIteration, batched,
          pc, timerActive, ioThisPass, pubThisPass, variant, delaying, ready_polls,
          pubs, out, flushed>>

\* The value of `flushed` after a step that did not broadcast.
NoFlush == [ran |-> FALSE]

Min(a, b) == IF a < b THEN a ELSE b

(***************************************************************************)
(* std::string::substr                                                     *)
(***************************************************************************)
\* s.substr(pos, count): count is a size_t, so a negative int is a huge count;
\* the result stops at the end of s.
Substr(s, pos, count) ==
    LET stop == IF count < 0 THEN Len(s) ELSE Min(pos + count, Len(s))
    IN  SubSeq(s, pos + 1, stop)

\* s.substr(pos): from pos to the end.
SubstrFrom(s, pos) == SubSeq(s, pos + 1, Len(s))

(***************************************************************************)
(* Room::broadcast, first loop: one unique message per unique sender       *)
(***************************************************************************)
RECURSIVE GapLoop(_, _, _, _, _)
\* for (int j = 1; j < gaps.size(); j++) ... ; message += substr(lastStop)
\* (j is the 1-based index of the gap the code calls gaps[j - 1])
GapLoop(shared, gaps, j, message, lastStop) ==
    IF j > Len(gaps)
    THEN message \o SubstrFrom(shared, lastStop)
    ELSE GapLoop(shared, gaps, j + 1,
                 message \o Substr(shared, lastStop, gaps[j].start - lastStop),
                 gaps[j].start + gaps[j].length)

RECURSIVE GapLoopKeepLast(_, _, _, _, _)
GapLoopKeepLast(shared, gaps, j, message, lastStop) ==
    IF j > Len(gaps)
    THEN message \o SubstrFrom(shared, lastStop)
    ELSE GapLoopKeepLast(shared, gaps, j + 1,
                 message \o Substr(shared, lastStop, gaps[j].start - lastStop),
                 gaps[j].start)

\* UniqueMessage with lastStop set to the start of a later gap, not its end.
UniqueMessageKeepsLater(shared, gaps) ==
    GapLoopKeepLast(shared, gaps, 2, Substr(shared, 0, gaps[1].start),
                    gaps[1].start + gaps[1].length)

\* The message for a sender with these gaps: sharedMessage without the gaps.
UniqueMessage(shared, gaps) ==
    GapLoop(shared, gaps, 2, Substr(shared, 0, gaps[1].start),
            gaps[1].start + gaps[1].length)

RECURSIVE SortedSeq(_)
\* The elements of a set of handles in increasing order (std::map iteration).
SortedSeq(S) ==
    IF S = {} THEN <<>>
    ELSE LET m == CHOOSE x \in S : \A y \in S : x <= y
         IN  <<m>> \o SortedSeq(S \ {m})

\* uniqueMessages: (handle, message) for every unique sender, in map order.
UniqueMessages(senders, shared) ==
    LET keys == SortedSeq(DOMAIN senders)
    IN  [i \in 1..Len(keys) |->
            [first |-> keys[i], second |-> UniqueMessage(shared, senders[keys[i]])]]

(***************************************************************************)
(* Room::broadcast, second loop: the sends, socket by socket               *)
(***************************************************************************)
RECURSIVE SendLoop(_, _, _, _, _, _)
\* k: 1-based position in sockets; j: the code's index into uniqueMessages.
SendLoop(socks, k, messages, j, prepared, sends) ==
    IF k > Len(socks) THEN sends
    ELSE IF j < Len(messages) /\ messages[j + 1].first = socks[k]
    THEN SendLoop(socks, k + 1, messages, j + 1, prepared,
             IF Len(messages[j + 1].second) > 0
             THEN Append(sends, [to |-> socks[k], kind |-> "send",
                                 data |-> messages[j + 1].second])
             ELSE sends)
    ELSE SendLoop(socks, k + 1, messages, j, prepared,
             Append(sends, [to |-> socks[k], kind |-> "sendPrepared",
                            data |-> prepared]))

\* The sends of one broadcast.
Sends(socks, messages, prepared) == SendLoop(socks, 1, messages, 0, prepared, <<>>)

\* The empty uniqueSenders map.
NoSenders == [s \in {} |-> <<>>]

\* Room::broadcast with sharedMessage.clear() left out.
broadcastKeepsShared ==
    LET messages == UniqueMessages(uniqueSenders, sharedMessage)
    IN  /\ out' = Sends(sockets, messages, sharedMessage)
        /\ flushed' = [ran |-> TRUE, uniqueSenders |-> uniqueSenders,
                       sharedMessage |-> sharedMessage,
                       uniqueMessages |-> messages, pubs |-> pubs]
        /\ batched' = 0
        /\ uniqueSenders' = NoSenders
        /\ sharedMessage' = sharedMessage
        /\ pubs' = <<>>
        /\ UNCHANGED <<sockets, gotPubsThisIteration>>

\* Room::broadcast
broadcast ==
    LET messages == UniqueMessages(uniqueSenders, sharedMessage)
    IN  /\ out' = Sends(sockets, messages, sharedMessage)
        /\ flushed' = [ran |-> TRUE, uniqueSenders |-> uniqueSenders,
                       sharedMessage |-> sharedMessage,
                       uniqueMessages |-> messages, pubs |-> pubs]
        /\ batched' = 0
        /\ uniqueSenders' = NoSenders
        /\ sharedMessage' = <<>>
        /\ pubs' = <<>>
        /\ UNCHANGED <<sockets, gotPubsThisIteration>>

(***************************************************************************)
(* Room::publish                                                           *)
(***************************************************************************)
\* sharedMessage.insert(0, message) in place of append.
PrependedMessage(shared, message) == message \o shared

\* sharedMessage.append(message, length)
AppendedMessage(shared, message) == shared \o message

\* uniqueSenders[sender] = {{start, length}}: the sender's earlier gaps are lost.
PushGapOverwrites(senders, sender, start, length) ==
    LET gap == [start |-> start, length |-> length]
    IN  [s \in DOMAIN senders \cup {sender} |->
            IF s # sender THEN senders[s] ELSE <<gap>>]

\* uniqueSenders[sender].push_back({start, start + length}): the end as length.
PushGapStoresEnd(senders, sender, start, length) ==
    LET gap == [start |-> start, length |-> start + length]
    IN  [s \in DOMAIN senders \cup {sender} |->
            IF s \in DOMAIN senders /\ s # sender THEN senders[s]
            ELSE IF s \in DOMAIN senders THEN Append(senders[s], gap)
            ELSE <<gap>>]

\* uniqueSenders[sender].push_back({start, length})
PushGap(senders, sender, start, length) ==
    LET gap == [start |-> start, length |-> length]
    IN  [s \in DOMAIN senders \cup {sender} |->
            IF s \in DOMAIN senders /\ s # sender THEN senders[s]
            ELSE IF s \in DOMAIN senders THEN Append(senders[s], gap)
            ELSE <<gap>>]

\* Room::publish without gotPubsThisIteration = true.
publishForgetsFlag(sender, message) ==
    LET start == Len(sharedMessage)
    IN  /\ sharedMessage' = AppendedMessage(sharedMessage, message)
        /\ uniqueSenders' = PushGap(uniqueSenders, sender, start, Len(message))
        /\ gotPubsThisIteration' = gotPubsThisIteration
        /\ batched' = batched + 1
        /\ pubs' = Append(pubs, [sender |-> sender, message |-> message])
        /\ out' = <<>>
        /\ flushed' = NoFlush
        /\ UNCHANGED sockets

\* Room::publish with start read after the append.
publishStartAfterAppend(sender, message) ==
    LET start == Len(AppendedMessage(sharedMessage, message))
    IN  /\ sharedMessage' = AppendedMessage(sharedMessage, message)
        /\ uniqueSenders' = PushGap(uniqueSenders, sender, start, Len(message))
        /\ gotPubsThisIteration' = TRUE
        /\ batched' = batched + 1
        /\ pubs' = Append(pubs, [sender |-> sender, message |-> message])
        /\ out' = <<>>
        /\ flushed' = NoFlush
        /\ UNCHANGED sockets

\* Room::publish
publish(sender, message) ==
    LET start == Len(sharedMessage)
    IN  /\ sharedMessage' = AppendedMessage(sharedMessage, message)
        /\ uniqueSenders' = PushGap(uniqueSenders, sender, start, Len(message))
        /\ gotPubsThisIteration' = TRUE
        /\ batched' = batched + 1
        /\ pubs' = Append(pubs, [sender |-> sender, message |-> message])
        /\ out' = <<>>
        /\ flushed' = NoFlush
        /\ UNCHANGED sockets

(***************************************************************************)
(* Room::addSubscriber                                                     *)
(***************************************************************************)
RECURSIVE Insert(_, _)
\* x put into the sorted sequence s, after the elements not greater than it.
Insert(s, x) ==
    IF s = <<>> THEN <<x>>
    ELSE IF x < Head(s) THEN <<x>> \o s
    ELSE <<Head(s)>> \o Insert(Tail(s), x)

RECURSIVE Sort(_)
\* std::sort(sockets.begin(), sockets.end(), a < b)
Sort(s) == IF s = <<>> THEN <<>> ELSE Insert(Sort(Tail(s)), Head(s))

\* Room::addSubscriber that also clears gotPubsThisIteration.
addSubscriberClearsFlag(ws) ==
    /\ sockets' = Sort(Append(sockets, ws))
    /\ gotPubsThisIteration' = FALSE
    /\ UNCHANGED <<uniqueSenders, sharedMessage, batched, pubs>>
    /\ flushed' = NoFlush

\* Room::addSubscriber: push_back, then sort.
addSubscriber(ws) ==
    /\ sockets' = Sort(Append(sockets, ws))
    /\ UNCHANGED <<uniqueSenders, sharedMessage, gotPubsThisIteration, batched, pubs>>
    /\ flushed' = NoFlush

(***************************************************************************)
(* The Room used through its methods, by any caller                        *)
(***************************************************************************)
InitState ==
    /\ sockets = <<>>
    /\ uniqueSenders = NoSenders
    /\ sharedMessage = <<>>
    /\ gotPubsThisIteration = FALSE
    /\ batched = 0
    /\ pc = "prepare"
    /\ timerActive = FALSE
    /\ ioThisPass = FALSE
    /\ pubThisPass = FALSE
    /\ delaying = FALSE
    /\ ready_polls = 0
    /\ pubs = <<>>
    /\ out = <<>>
    /\ flushed = NoFlush

\* The program of the Room listing, before hub.run().
Init == InitState /\ variant = "room"

RoomAddSubscriber ==
    \E ws \in Ids :
        /\ Len(sockets) < MaxSockets
        /\ addSubscriber(ws)
        /\ out' = <<>>
        /\ UNCHANGED <<loop, earlier>>

RoomPublish ==
    \E sender \in Ids, length \in 0..MaxLen :
        /\ batched < MaxBatched
        /\ publish(sender, Message(sender, length))
        /\ UNCHANGED <<loop, earlier>>

RoomBroadcast ==
    /\ broadcast
    /\ UNCHANGED <<loop, earlier>>

RoomNext == RoomAddSubscriber \/ RoomPublish \/ RoomBroadcast

RoomSpec == Init /\ [][RoomNext]_vars

(***************************************************************************)
(* main: the handlers and the two loop callbacks, run by hub.run()         *)
(***************************************************************************)
\* The handles held in a vector.
Range(s) == {s[i] : i \in DOMAIN s}

\* The prepare callback without gotPubsThisIteration = false.
prepareKeepsFlag ==
    /\ pc = "prepare"
    /\ IF batched > 0
       THEN /\ timerActive' = TRUE
            /\ gotPubsThisIteration' = gotPubsThisIteration
       ELSE UNCHANGED <<timerActive, gotPubsThisIteration>>
    /\ pc' = "poll"
    /\ ioThisPass' = FALSE
    /\ pubThisPass' = FALSE
    /\ out' = <<>>
    /\ flushed' = NoFlush
    /\ UNCHANGED <<sockets, uniqueSenders, sharedMessage, batched, pubs, earlier>>

\* The prepare callback without uv_timer_start.
prepareNoTimer ==
    /\ pc = "prepare"
    /\ IF batched > 0
       THEN /\ timerActive' = timerActive
            /\ gotPubsThisIteration' = FALSE
       ELSE UNCHANGED <<timerActive, gotPubsThisIteration>>
    /\ pc' = "poll"
    /\ ioThisPass' = FALSE
    /\ pubThisPass' = FALSE
    /\ out' = <<>>
    /\ flushed' = NoFlush
    /\ UNCHANGED <<sockets, uniqueSenders, sharedMessage, batched, pubs, earlier>>

\* uv_prepare callback, called before the loop polls for I/O.
prepare ==
    /\ pc = "prepare"
    /\ IF batched > 0
       THEN /\ timerActive' = TRUE
            /\ gotPubsThisIteration' = FALSE
       ELSE UNCHANGED <<timerActive, gotPubsThisIteration>>
    /\ pc' = "poll"
    /\ ioThisPass' = FALSE
    /\ pubThisPass' = FALSE
    /\ out' = <<>>
    /\ flushed' = NoFlush
    /\ UNCHANGED <<sockets, uniqueSenders, sharedMessage, batched, pubs, earlier>>

\* hub.onConnection, for a connection that is new to the hub.
onConnection ==
    \E ws \in Ids \ Range(sockets) :
        /\ pc = "poll"
        /\ Len(sockets) < MaxSockets
        /\ addSubscriber(ws)
        /\ out' = <<[to |-> ws, kind |-> "send", data |-> Greeting]>>
        /\ ioThisPass' = TRUE
        /\ UNCHANGED <<pc, timerActive, pubThisPass, earlier>>

\* hub.onMessage, for a message of an established connection.
onMessage ==
    \E ws \in Range(sockets), length \in 0..MaxLen :
        /\ pc = "poll"
        /\ batched < MaxBatched
        /\ publish(ws, Message(ws, length))
        /\ ioThisPass' = TRUE
        /\ pubThisPass' = TRUE
        /\ UNCHANGED <<pc, timerActive, earlier>>

\* The poll returns: it has run I/O callbacks, or the timer ended its wait.
\* A timer that was due fires (a noop) and is no longer active.
PollReturn ==
    /\ pc = "poll"
    /\ ioThisPass \/ timerActive
    /\ \E fires \in BOOLEAN :
        /\ ~ioThisPass => fires
        /\ timerActive' = (timerActive /\ ~fires)
    /\ pc' = "check"
    /\ out' = <<>>
    /\ flushed' = NoFlush
    /\ UNCHANGED <<room, ioThisPass, pubThisPass, pubs, earlier>>

\* uv_check callback, called after the poll returned and its callbacks ran.
check ==
    /\ pc = "check"
    /\ IF batched > 0 /\ ~gotPubsThisIteration
       THEN broadcast
       ELSE /\ out' = <<>>
            /\ flushed' = NoFlush
            /\ UNCHANGED <<room, pubs>>
    /\ pc' = "prepare"
    /\ UNCHANGED <<timerActive, ioThisPass, pubThisPass, earlier>>

Next == prepare \/ onConnection \/ onMessage \/ PollReturn \/ check

Spec == Init /\ [][Next]_vars

\* The loop keeps running: a callback or a return that can happen does happen.
LiveSpec == Spec /\ WF_vars(prepare) /\ WF_vars(PollReturn) /\ WF_vars(check)

(***************************************************************************)
(* The earlier listing (README.md): the same broadcast on global state,    *)
(* with delaying and ready_polls in place of gotPubsThisIteration          *)
(***************************************************************************)
\* broadcast() of the earlier listing
readmeBroadcast ==
    LET messages == UniqueMessages(uniqueSenders, sharedMessage)
    IN  /\ out' = Sends(sockets, messages, sharedMessage)
        /\ flushed' = [ran |-> TRUE, uniqueSenders |-> uniqueSenders,
                       sharedMessage |-> sharedMessage,
                       uniqueMessages |-> messages, pubs |-> pubs]
        /\ delaying' = FALSE
        /\ batched' = 0
        /\ uniqueSenders' = NoSenders
        /\ sharedMessage' = <<>>
        /\ pubs' = <<>>
        /\ UNCHANGED <<sockets, gotPubsThisIteration>>

\* uv_prepare callback of the earlier listing
readmePrepare ==
    /\ pc = "prepare"
    /\ ready_polls' = 0
    /\ timerActive' = (IF batched > 0 THEN TRUE ELSE timerActive)
    /\ pc' = "poll"
    /\ ioThisPass' = FALSE
    /\ pubThisPass' = FALSE
    /\ out' = <<>>
    /\ flushed' = NoFlush
    /\ UNCHANGED <<room, pubs, variant, delaying>>

\* uv_check callback of the earlier listing
readmeCheck ==
    /\ pc = "check"
    /\ IF delaying /\ ready_polls = 0
       THEN readmeBroadcast
       ELSE /\ out' = <<>>
            /\ flushed' = NoFlush
            /\ UNCHANGED <<room, pubs, delaying>>
    /\ pc' = "prepare"
    /\ UNCHANGED <<timerActive, ioThisPass, pubThisPass, variant, ready_polls>>

\* hub.onConnection of the earlier listing, for a connection new to the hub
readmeOnConnection ==
    \E ws \in Ids \ Range(sockets) :
        /\ pc = "poll"
        /\ Len(sockets) < MaxSockets
        /\ sockets' = Sort(Append(sockets, ws))
        /\ out' = <<[to |-> ws, kind |-> "send", data |-> Greeting]>>
        /\ flushed' = NoFlush
        /\ ioThisPass' = TRUE
        /\ UNCHANGED <<uniqueSenders, sharedMessage, gotPubsThisIteration, batched,
                       pubs, pc, timerActive, pubThisPass, earlier>>

\* hub.onMessage of the earlier listing without delaying = true.
readmeReceiveStaysIdle(ws, message) ==
    LET start == Len(sharedMessage)
    IN  /\ sharedMessage' = AppendedMessage(sharedMessage, message)
        /\ uniqueSenders' = PushGap(uniqueSenders, ws, start, Len(message))
        /\ delaying' = delaying
        /\ batched' = (IF ~delaying THEN 0 ELSE batched) + 1
        /\ ready_polls' = ready_polls + 1
        /\ pubs' = Append(pubs, [sender |-> ws, message |-> message])
        /\ out' = <<>>
        /\ flushed' = NoFlush
        /\ UNCHANGED <<sockets, gotPubsThisIteration, variant>>

\* The body of hub.onMessage of the earlier listing.
readmeReceive(ws, message) ==
    LET start == Len(sharedMessage)
    IN  /\ sharedMessage' = AppendedMessage(sharedMessage, message)
        /\ uniqueSenders' = PushGap(uniqueSenders, ws, start, Len(message))
        /\ delaying' = TRUE
        /\ batched' = (IF ~delaying THEN 0 ELSE batched) + 1
        /\ ready_polls' = ready_polls + 1
        /\ pubs' = Append(pubs, [sender |-> ws, message |-> message])
        /\ out' = <<>>
        /\ flushed' = NoFlush
        /\ UNCHANGED <<sockets, gotPubsThisIteration, variant>>

\* hub.onMessage of the earlier listing, for a message of an established connection
readmeOnMessage ==
    \E ws \in Range(sockets), length \in 0..MaxLen :
        /\ pc = "poll"
        /\ batched < MaxBatched
        /\ readmeReceive(ws, Message(ws, length))
        /\ ioThisPass' = TRUE
        /\ pubThisPass' = TRUE
        /\ UNCHANGED <<pc, timerActive>>

ReadmeNext ==
    readmePrepare \/ readmeOnConnection \/ readmeOnMessage \/ PollReturn \/ readmeCheck

\* Either listing, before hub.run().
VariantsInit == InitState /\ variant \in {"room", "readme"}

\* The program of either listing.
VariantsNext == (variant = "room" /\ Next) \/ (variant = "readme" /\ ReadmeNext)

VariantsSpec == VariantsInit /\ [][VariantsNext]_vars

(***************************************************************************)
(* Notions the properties are stated with                                  *)
(***************************************************************************)
\* How many entries of the vector s are x.
Count(s, x) == Cardinality({i \in DOMAIN s : s[i] = x})

\* Byte position p (from 0) lies in one of the gaps.
InGap(gaps, p) ==
    \E g \in DOMAIN gaps : gaps[g].start <= p /\ p < gaps[g].start + gaps[g].length

RECURSIVE WithoutFrom(_, _, _)
\* The bytes of shared at positions p, p + 1, ... that lie in no gap, in order.
WithoutFrom(shared, gaps, p) ==
    IF p >= Len(shared) THEN <<>>
    ELSE (IF InGap(gaps, p) THEN <<>> ELSE <<shared[p + 1]>>)
         \o WithoutFrom(shared, gaps, p + 1)

\* shared with exactly the bytes of the gaps removed.
Without(shared, gaps) == WithoutFrom(shared, gaps, 0)

\* The gaps cover every byte of a buffer of n bytes.
Covers(gaps, n) == \A p \in 0..(n - 1) : InGap(gaps, p)

RECURSIVE Concat(_)
\* The messages of a sequence of publications, one after the other.
Concat(ps) == IF ps = <<>> THEN <<>> ELSE Head(ps).message \o Concat(Tail(ps))

\* The senders of a sequence of publications.
Publishers(ps) == {ps[i].sender : i \in DOMAIN ps}

\* The step just taken was a broadcast.
Flushed == flushed.ran

\* sockets holds every handle at most once: the subscribers are a set.
SocketsAreSet == \A id \in Ids : Count(sockets, id) <= 1

(***************************************************************************)
(* C1. No self-echo: no send of a broadcast carries to a socket a byte     *)
(* that the same socket published in the window, whoever the senders and   *)
(* subscribers of the window are.  Stated for a room that holds every      *)
(* subscriber once.                                                        *)
(***************************************************************************)
C1_NoSelfEcho ==
    Flushed /\ SocketsAreSet =>
        \A i \in DOMAIN out : \A k \in DOMAIN out[i].data :
            out[i].data[k].by # out[i].to

(***************************************************************************)
(* C2. Exclusion correctness: at a broadcast, the message built for each   *)
(* unique sender is sharedMessage with exactly the bytes of that sender's  *)
(* gaps removed, the other bytes in their order; it is empty if and only   *)
(* if the gaps cover the whole of sharedMessage.                           *)
(***************************************************************************)
C2_ExclusionCorrect ==
    Flushed =>
        /\ {flushed.uniqueMessages[i].first : i \in DOMAIN flushed.uniqueMessages}
               = DOMAIN flushed.uniqueSenders
        /\ \A i \in DOMAIN flushed.uniqueMessages :
            LET m == flushed.uniqueMessages[i]
                gaps == flushed.uniqueSenders[m.first]
            IN  /\ m.second = Without(flushed.sharedMessage, gaps)
                /\ (m.second = <<>>) <=> Covers(gaps, Len(flushed.sharedMessage))

\* A broadcast built a message that is not empty for a sender with two gaps
\* that are apart.
C2_Witness ==
    /\ Flushed
    /\ \E i \in DOMAIN flushed.uniqueMessages :
        LET m == flushed.uniqueMessages[i]
            gaps == flushed.uniqueSenders[m.first]
        IN  /\ Len(gaps) >= 2
            /\ gaps[2].start > gaps[1].start + gaps[1].length
            /\ m.second # <<>>

(***************************************************************************)
(* C3. Completeness: what a broadcast sends to a pure listener (a socket   *)
(* that published nothing in the window) is the messages of the window,    *)
(* one after the other in the order they were published.                   *)
(***************************************************************************)
C3_Completeness ==
    Flushed =>
        /\ \A i \in DOMAIN out :
            out[i].to \notin Publishers(flushed.pubs) =>
                out[i].data = Concat(flushed.pubs)
        /\ \A s \in Range(sockets) \ Publishers(flushed.pubs) :
            \E i \in DOMAIN out : out[i].to = s

\* A pure listener was sent a window of messages of two senders.
C3_Witness ==
    /\ Flushed
    /\ Cardinality(Publishers(flushed.pubs)) >= 2
    /\ \E a, b \in DOMAIN flushed.pubs :
        /\ a < b
        /\ flushed.pubs[a].sender > flushed.pubs[b].sender
        /\ flushed.pubs[a].message # <<>>
        /\ flushed.pubs[b].message # <<>>
    /\ \E i \in DOMAIN out : out[i].to \notin Publishers(flushed.pubs)

C5_WindowsDontLeak ==
    [][flushed'.ran =>
        /\ sharedMessage' = <<>>
        /\ uniqueSenders' = NoSenders
        /\ batched' = 0
        /\ sockets' = sockets]_vars

\* A broadcast of a window with bytes, to a room with sockets, has just run.
C5_Witness ==
    /\ Flushed
    /\ flushed.sharedMessage # <<>>
    /\ DOMAIN flushed.uniqueSenders # {}
    /\ sockets # <<>>
    /\ sharedMessage = <<>>

(***************************************************************************)
(* C9. addSubscriber is idempotent: no handle is in sockets twice.         *)
(***************************************************************************)
C9_SubscribeIdempotent == \A id \in Ids : Count(sockets, id) <= 1

\* The step is the check callback of a pass.
CheckStep == pc = "check" /\ pc' = "prepare"

(***************************************************************************)
(* C6. Window-closing latency bound: when publications are pending and no  *)
(* publish happened between the prepare callback and the check callback of *)
(* a pass, that check callback broadcasts.                                 *)
(***************************************************************************)
C6_LatencyBound ==
    [][CheckStep /\ batched > 0 /\ ~pubThisPass =>
        flushed'.ran /\ batched' = 0]_vars

\* The check callback of a pass without a publish has just broadcast a window.
C6_Witness ==
    /\ pc = "prepare"
    /\ Flushed
    /\ ~pubThisPass
    /\ Len(flushed.pubs) >= 2

(***************************************************************************)
(* C7. Window extension: the check callback of a pass in which a publish   *)
(* happened does not broadcast; it sends nothing and leaves sharedMessage, *)
(* uniqueSenders and batched as they are.                                  *)
(***************************************************************************)
C7_WindowExtension ==
    [][CheckStep /\ pubThisPass =>
        /\ ~flushed'.ran
        /\ out' = <<>>
        /\ UNCHANGED <<sharedMessage, uniqueSenders, batched>>]_vars

\* A window that a second pass with a publish extended: the timer was started
\* by the prepare callback of that pass, and its check callback did not broadcast.
C7_Witness ==
    /\ pc = "prepare"
    /\ pubThisPass
    /\ ~Flushed
    /\ batched >= 2
    /\ timerActive
    /\ sockets # <<>>

(***************************************************************************)
(* C8. Eventual flush: the prepare callback starts the timer whenever      *)
(* publications are pending, so the loop never waits for I/O with pending  *)
(* publications and neither a callback run nor a timer to end the wait;    *)
(* and if the publishes stop, the pending publications are broadcast       *)
(* (batched returns to 0).                                                 *)
(***************************************************************************)
C8_EventualFlush ==
    /\ [][pc = "prepare" /\ pc' = "poll" /\ batched > 0 => timerActive']_vars
    /\ [](pc = "poll" /\ batched > 0 => timerActive \/ ioThisPass)
    /\ ([]<><<onMessage>>_vars \/ [](batched > 0 => <>(batched = 0)))

\* The loop waits for I/O with publications pending and only the timer to wake it.
C8_Witness ==
    /\ pc = "poll"
    /\ batched > 0
    /\ ~ioThisPass
    /\ timerActive

(***************************************************************************)
(* C11. Broadcast with nothing pending is a no-op: a broadcast that starts *)
(* with batched = 0 sends nothing to any socket and changes no room state; *)
(* and the check callback never broadcasts while batched is 0.             *)
(***************************************************************************)
C11_EmptyFlushNoOp ==
    [][/\ flushed'.ran /\ batched = 0 => out' = <<>> /\ UNCHANGED room
       /\ CheckStep /\ batched = 0 => ~flushed'.ran]_vars

\* The part of C11 about the check callback alone.
C11_CheckNeverFlushesEmpty == [][CheckStep /\ batched = 0 => ~flushed'.ran]_vars

\* The sends of the last step that went to handle s.
SendsTo(s) == {i \in DOMAIN out : out[i].to = s}

(***************************************************************************)
(* C12. Minimal send plan: in a broadcast every subscriber gets at most    *)
(* one send; only subscribers that published in the window get a unique    *)
(* message, so there are at most as many of those sends as distinct        *)
(* publishers; every other send is the one prepared sharedMessage.         *)
(* Stated for the broadcast of a window with at least one publication.     *)
(***************************************************************************)
C12_MinimalPlan ==
    Flushed /\ flushed.pubs # <<>> =>
        /\ \A s \in Ids : Cardinality(SendsTo(s)) <= 1
        /\ \A i \in DOMAIN out :
            IF out[i].kind = "send"
            THEN out[i].to \in Publishers(flushed.pubs)
            ELSE out[i].kind = "sendPrepared" /\ out[i].data = flushed.sharedMessage
        /\ Cardinality({i \in DOMAIN out : out[i].kind = "send"})
               <= Cardinality(Publishers(flushed.pubs))

(***************************************************************************)
(* C13. Empty reconstruction sends nothing: a subscriber whose own gaps    *)
(* cover the whole of sharedMessage is sent nothing by the broadcast.      *)
(* Stated for a room that holds every subscriber once and a sharedMessage  *)
(* that is not empty.                                                      *)
(***************************************************************************)
C13_EmptySendsNothing ==
    Flushed /\ SocketsAreSet /\ flushed.sharedMessage # <<>> =>
        \A s \in Range(sockets) \cap DOMAIN flushed.uniqueSenders :
            Covers(flushed.uniqueSenders[s], Len(flushed.sharedMessage)) =>
                SendsTo(s) = {}

\* How many of the first k publications of the window are by the sender of the k-th.
Nth(ps, k) == Cardinality({j \in 1..k : ps[j].sender = ps[k].sender})

(***************************************************************************)
(* C14. Exclusion-index well-formedness: in every state the gaps of every  *)
(* sender are its publications in publish order (start: the bytes          *)
(* published before it, length: its bytes), do not overlap (each starts at *)
(* or after the end of the one before), and have start >= 0, length >= 0   *)
(* and start + length <= the length of sharedMessage.                      *)
(***************************************************************************)
C14_GapsWellFormed ==
    /\ \A s \in DOMAIN uniqueSenders :
        LET gaps == uniqueSenders[s]
        IN  \A i \in DOMAIN gaps :
                /\ gaps[i].start >= 0
                /\ gaps[i].length >= 0
                /\ gaps[i].start + gaps[i].length <= Len(sharedMessage)
                /\ i > 1 => gaps[i].start >= gaps[i - 1].start + gaps[i - 1].length
    /\ \A k \in DOMAIN pubs :
        /\ pubs[k].sender \in DOMAIN uniqueSenders
        /\ Nth(pubs, k) \in DOMAIN uniqueSenders[pubs[k].sender]
        /\ uniqueSenders[pubs[k].sender][Nth(pubs, k)] =
               [start |-> Len(Concat(SubSeq(pubs, 1, k - 1))),
                length |-> Len(pubs[k].message)]

\* A sender has two gaps with bytes, with a byte of another sender between them.
C14_Witness ==
    \E s \in DOMAIN uniqueSenders :
        /\ Len(uniqueSenders[s]) >= 2
        /\ uniqueSenders[s][1].length > 0
        /\ uniqueSenders[s][2].length > 0
        /\ uniqueSenders[s][2].start > uniqueSenders[s][1].start + uniqueSenders[s][1].length

(***************************************************************************)
(* C15. Exactly-once across windows: sharedMessage always holds exactly    *)
(* the publications made since the last broadcast, in order, so the        *)
(* sharedMessage a broadcast of the check callback sends is exactly the    *)
(* publications made since the broadcast before it: none of an earlier     *)
(* window, none missing; and after it nothing is left for the next one.    *)
(***************************************************************************)
C15_ExactlyOnce ==
    /\ sharedMessage = Concat(pubs)
    /\ batched = Len(pubs)
    /\ Flushed =>
        /\ flushed.pubs # <<>>
        /\ flushed.sharedMessage = Concat(flushed.pubs)
        /\ pubs = <<>>
        /\ \A i \in DOMAIN out :
            out[i].kind = "sendPrepared" => out[i].data = Concat(flushed.pubs)

\* The check callback has just broadcast a window of two or more publications
\* with bytes, and a socket was sent the prepared message.
C15_Witness ==
    /\ Flushed
    /\ pc = "prepare"
    /\ Len(flushed.pubs) >= 2
    /\ flushed.sharedMessage # <<>>
    /\ \E i \in DOMAIN out : out[i].kind = "sendPrepared"

(***************************************************************************)
(* C16. Subscribing does not touch the window in progress: a step that     *)
(* adds a subscriber leaves sharedMessage, uniqueSenders, batched and      *)
(* gotPubsThisIteration unchanged, and a step that publishes leaves        *)
(* sockets unchanged.                                                      *)
(***************************************************************************)
C16_SubscribeFrame ==
    [][/\ Len(sockets') > Len(sockets) =>
            UNCHANGED <<sharedMessage, uniqueSenders, batched, gotPubsThisIteration>>
       /\ Len(pubs') > Len(pubs) => sockets' = sockets]_vars

\* A connection has just been accepted (it was sent the greeting) while a
\* window with a publication of this pass is open.
C16_Witness ==
    /\ Len(out) = 1
    /\ out[1].data = Greeting
    /\ batched > 0
    /\ gotPubsThisIteration
    /\ sharedMessage # <<>>

RECURSIVE SumOver(_, _)
\* The sum of f[s] over the handles s of S.
SumOver(f, S) ==
    IF S = {} THEN 0
    ELSE LET s == CHOOSE x \in S : TRUE
         IN  f[s] + SumOver(f, S \ {s})

\* The number of gaps held for all senders together.
GapCount(senders) == SumOver([s \in DOMAIN senders |-> Len(senders[s])], DOMAIN senders)

RECURSIVE LengthSum(_)
\* The sum of the lengths of a vector of gaps.
LengthSum(gaps) == IF gaps = <<>> THEN 0 ELSE Head(gaps).length + LengthSum(Tail(gaps))

(***************************************************************************)
(* C18. batched counts the window: in every state batched is the number of *)
(* publishes since the last broadcast, which is the number of gaps held in *)
(* uniqueSenders; so batched is 0 exactly when uniqueSenders is empty, and *)
(* every entry of uniqueSenders holds at least one gap.                    *)
(***************************************************************************)
C18_BatchedCounts ==
    /\ batched = Len(pubs)
    /\ batched = GapCount(uniqueSenders)
    /\ (batched = 0) <=> (DOMAIN uniqueSenders = {})
    /\ \A s \in DOMAIN uniqueSenders : Len(uniqueSenders[s]) >= 1
    /\ DOMAIN uniqueSenders = Publishers(pubs)

\* A window of three publications of two senders.
C18_Witness ==
    /\ batched = 3
    /\ Cardinality(DOMAIN uniqueSenders) = 2
    /\ \E s \in DOMAIN uniqueSenders : Len(uniqueSenders[s]) = 2

(***************************************************************************)
(* C19. Ranges tile the buffer: in every state every byte of sharedMessage *)
(* lies in exactly one gap of exactly one sender, the sender that          *)
(* published it, and the lengths of all gaps sum to the length of          *)
(* sharedMessage.                                                          *)
(***************************************************************************)
C19_GapsTile ==
    /\ \A p \in 0..(Len(sharedMessage) - 1) :
        LET all == UNION {{<<s, g>> : g \in DOMAIN uniqueSenders[s]} :
                              s \in DOMAIN uniqueSenders}
            holders == {h \in all : InGap(<<uniqueSenders[h[1]][h[2]]>>, p)}
        IN  /\ Cardinality(holders) = 1
            /\ \A h \in holders : sharedMessage[p + 1].by = h[1]
    /\ SumOver([s \in DOMAIN uniqueSenders |-> LengthSum(uniqueSenders[s])],
               DOMAIN uniqueSenders) = Len(sharedMessage)

\* Bytes of two senders interleaved: a sender's two gaps around another's.
C19_Witness ==
    /\ Len(sharedMessage) = 3
    /\ sharedMessage[1].by = sharedMessage[3].by
    /\ sharedMessage[1].by # sharedMessage[2].by

(***************************************************************************)
(* C17. Controller state matches pending data: in every state of either    *)
(* listing a window is open (publications were made since the last         *)
(* broadcast) exactly when batched > 0; in the earlier listing delaying is *)
(* true exactly when batched > 0; and a publish seen in the current pass   *)
(* (gotPubsThisIteration, or ready_polls > 0) implies batched > 0.         *)
(***************************************************************************)
C17_ControllerMatches ==
    /\ (batched > 0) <=> (pubs # <<>>)
    /\ variant = "room" => (gotPubsThisIteration => batched > 0)
    /\ variant = "readme" =>
        /\ delaying <=> (batched > 0)
        /\ ready_polls > 0 => batched > 0

\* The earlier listing at its check callback, in a window of two passes: a
\* publish of an earlier pass, one of this pass.
C17_Witness ==
    /\ variant = "readme"
    /\ pc = "check"
    /\ delaying
    /\ ready_polls = 1
    /\ batched = 2

====
